---- MODULE Spec2Model ----
(***************************************************************************)
(* Model of src/src/cadock.py: perform_docking (ligand preparation,        *)
(* receptor preparation, pocket prediction, per-ligand conversion,         *)
(* docking, score parsing and result recording) and visualize_results.     *)
(* The external tools (RDKit, the PDB client, p2rank, obabel, vina, PyMOL) *)
(* are environments: each call draws its outcome from the outcomes the     *)
(* tool can produce.                                                       *)
(***************************************************************************)
EXTENDS Integers, Sequences, FiniteSets, TLC

VARIABLES
    smiles_list,    \* the argument of perform_docking
    earlier,        \* the SMILES list of an earlier completed run, if any
    pc,             \* position in perform_docking / visualize_results
    i,              \* loop index, 1-based (enumerate index + 1)
    valid_smiles,   \* the list built by the preparation loop
    prep_ok,        \* prep_ok[k]: what generate_minimized_pdb returned for k
    files,          \* paths in docking_results/ that hold usable content
    written,        \* paths perform_docking wrote during this run
    results_disk,   \* the lines of docking_results.txt on disk
    results_buf,    \* lines given to f.write and not yet flushed
    log,            \* the lines of the current ligand's vina_log_<i>.txt
    exit_code,      \* what run_command_with_output returned last
    calls,          \* the external invocations made so far, in order
    fatal,          \* the exception that ended the run, "none" otherwise
    loaded          \* the paths visualize_results asked PyMOL to load

vars == <<smiles_list, earlier, pc, i, valid_smiles, prep_ok, files, written,
          results_disk, results_buf, log, exit_code, calls, fatal, loaded>>

-----------------------------------------------------------------------------
(* Bounds *)

MaxLigands == 2
MaxEarlier == 1
MaxLogLines == 2

-----------------------------------------------------------------------------
(* Inputs *)

BSeq(S, n) == UNION {[1..m -> S] : m \in 0..n}

\* The lists perform_docking is called with: two SMILES in alternation, so
\* neighbours differ and a list of three holds a repeated SMILES.
SmilesAt(k) == IF k % 2 = 1 THEN "CCO" ELSE "c1ccccc1"
InputLists == {[k \in 1..m |-> SmilesAt(k)] : m \in 0..MaxLigands}

\* The lists an earlier run was called with.
EarlierSmiles == "CC(=O)O"
EarlierLists == {[k \in 1..m |-> EarlierSmiles] : m \in 0..MaxEarlier}

N == Len(smiles_list)

\* Characters are one-character strings; a line of text is a sequence of them.
SP == " "

\* Lines the docking engine may print (without the newline).
LineHeader   == <<"m", "o", "d", "e">>
LineRank1    == <<SP, SP, SP, "1", SP, "-", "7", ".", "2">>
LineRank10   == <<SP, SP, SP, "1", "0", SP, "-", "5">>
LineRank1Col == <<"1", SP, "-", "8">>
LineRank1Bar == <<SP, SP, SP, "1">>
LineRank1Txt == <<SP, SP, SP, "1", SP, "x">>

LogLines == {LineHeader, LineRank1, LineRank10, LineRank1Col,
             LineRank1Bar, LineRank1Txt}

Logs == BSeq(LogLines, MaxLogLines)

-----------------------------------------------------------------------------
(* Paths under folder_name *)

LigandPdb(k)     == <<"ligand_", k, ".pdb">>
LigandPdbqt(k)   == <<"ligand_", k, ".pdbqt">>
LigandOut(k)     == <<"ligand_", k, "_out.pdbqt">>
VinaLog(k)       == <<"vina_log_", k, ".txt">>
BestPdb(k)       == <<"receptor_ligand_", k, "_best.pdb">>
DirtyPdb         == <<"receptor_dirty", 0, ".pdb">>
ReceptorPdb      == <<"receptor", 0, ".pdb">>
ReceptorPdbqt    == <<"receptor", 0, ".pdbqt">>
ResultsFile      == <<"docking_results", 0, ".txt">>
PosePdbqt(k)     == <<"receptor_ligand_", k, ".pdbqt">>
PoseImage(k)     == <<"receptor_ligand_", k, "_image.png">>
AlignImage(k)    == <<"alignment_ligand_", k, ".png">>

-----------------------------------------------------------------------------
(* The result table *)

NA  == <<"N", "/", "A">>
ERR == <<"E", "r", "r", "o", "r">>
IndexError == <<"IndexError">>

\* One line of docking_results.txt: the two comma-joined fields, and the run
\* that wrote it (0: an earlier run, 1: this run).
Header(r) == [smiles |-> "SMILES",
              score |-> <<"D", "o", "c", "k", "i", "n", "g", SP,
                          "S", "c", "o", "r", "e">>,
              run |-> r]
Row(s, sc, r) == [smiles |-> s, score |-> sc, run |-> r]

\* f.write: the line goes to the file object's buffer.
FileWrite(buf, line) == Append(buf, line)

\* Variant: the table opened in append mode.
OpenAppend(disk) == disk

\* open(results_file, 'w'): the file on disk is truncated.
OpenTruncate(disk) == <<>>

\* Leaving the with block (normally or by an exception) closes the file,
\* which flushes the buffer.
CloseFile(disk, buf) == disk \o buf

-----------------------------------------------------------------------------
(* Text functions *)

\* str.startswith
startswith(line, prefix) ==
    /\ Len(line) >= Len(prefix)
    /\ SubSeq(line, 1, Len(prefix)) = prefix

\* str.split() with no argument: the maximal runs of non-whitespace.
RECURSIVE SplitFrom(_, _, _)
SplitFrom(line, cur, acc) ==
    IF line = <<>>
    THEN IF cur = <<>> THEN acc ELSE Append(acc, cur)
    ELSE IF Head(line) = SP
         THEN SplitFrom(Tail(line), <<>>,
                        IF cur = <<>> THEN acc ELSE Append(acc, cur))
         ELSE SplitFrom(Tail(line), Append(cur, Head(line)), acc)

split(line) == SplitFrom(line, <<>>, <<>>)

\* The prefix the score scan looks for: three spaces and the digit 1.
RankPrefix == <<SP, SP, SP, "1">>

\* The scan of the log after a zero exit: score starts as "N/A"; the first
\* line that starts with RankPrefix gives line.split()[1] and ends the scan.
\* line.split()[1] raises IndexError when the line has a single field.
RECURSIVE ScanLog(_)
ScanLog(lines) ==
    IF lines = <<>> THEN NA
    ELSE IF startswith(Head(lines), RankPrefix)
         THEN IF Len(split(Head(lines))) < 2 THEN IndexError
              ELSE split(Head(lines))[2]
         ELSE ScanLog(Tail(lines))

\* The score perform_docking computes from the exit code and the log.
ScoreOf(code, lines) == IF code = 0 THEN ScanLog(lines) ELSE ERR

-----------------------------------------------------------------------------
(* Ligand preparation *)

PrepOutcomes == {"ok", "invalid_smiles", "embed_failed", "minimize_failed",
                 "sanitize_failed"}

\* generate_minimized_pdb: True only when parsing, embedding, minimization
\* and sanitization all succeed; every failure is caught and returns False.
generate_minimized_pdb(outcome) == outcome = "ok"

-----------------------------------------------------------------------------
(* The directory an earlier, normally completed run leaves behind *)

EarlierScore == split(LineRank1)[2]

EarlierFiles(list) ==
    {DirtyPdb, ReceptorPdb, ReceptorPdbqt, ResultsFile}
    \cup UNION {{LigandPdb(k), LigandPdbqt(k), LigandOut(k), VinaLog(k),
                 BestPdb(k)} : k \in 1..Len(list)}

EarlierTable(list) ==
    <<Header(0)>> \o [k \in 1..Len(list) |-> Row(list[k], EarlierScore, 0)]

-----------------------------------------------------------------------------
(* Initial state: perform_docking is called on a fresh directory, or on one *)
(* an earlier run of perform_docking populated.                             *)

Init ==
    /\ smiles_list \in InputLists
    /\ earlier \in {[ran |-> FALSE, list |-> <<>>]}
                   \cup {[ran |-> TRUE, list |-> l] : l \in EarlierLists}
    /\ pc = IF smiles_list = <<>> THEN "fetch" ELSE "prep"
    /\ i = 1
    /\ valid_smiles = <<>>
    /\ prep_ok = <<>>
    /\ files = IF earlier.ran THEN EarlierFiles(earlier.list) ELSE {}
    /\ written = {}
    /\ results_disk = IF earlier.ran THEN EarlierTable(earlier.list) ELSE <<>>
    /\ results_buf = <<>>
    /\ log = <<>>
    /\ exit_code = -1
    /\ calls = <<>>
    /\ fatal = "none"
    /\ loaded = {}

-----------------------------------------------------------------------------
(* Helpers of the actions *)

Call(tool, k, ok) == [tool |-> tool, k |-> k, ok |-> ok]

\* The with block of the result table spans the docking loop.
InWith == pc \in {"convert", "dock", "record", "pose", "close"}

\* Variant: the table opened without a with block, so that an exception
\* leaves the buffered lines unwritten.
RaiseNoClose(cause) ==
    /\ pc' = "aborted"
    /\ fatal' = cause
    /\ UNCHANGED <<results_disk, results_buf>>

\* An exception propagates out of perform_docking. Inside the with block
\* the file is closed on the way out.
Raise(cause) ==
    /\ pc' = "aborted"
    /\ fatal' = cause
    /\ IF InWith
       THEN /\ results_disk' = CloseFile(results_disk, results_buf)
            /\ results_buf' = <<>>
       ELSE UNCHANGED <<results_disk, results_buf>>

\* Variant: the docking loop enumerates the prepared ligands only.
DockingListValid == valid_smiles

\* The list the docking loop enumerates.
DockingList == smiles_list

\* The position after iteration k of the docking loop.
AfterLigand(k) == IF k >= Len(DockingList) THEN "close" ELSE "convert"

-----------------------------------------------------------------------------
(* perform_docking *)

\* One iteration of the preparation loop: the structure file is written only
\* on success, and only then is the SMILES appended to valid_smiles.
PrepareLigand ==
    /\ pc = "prep"
    /\ i <= N
    /\ \E outcome \in PrepOutcomes :
         LET ok == generate_minimized_pdb(outcome) IN
         /\ prep_ok' = Append(prep_ok, ok)
         /\ valid_smiles' = IF ok THEN Append(valid_smiles, smiles_list[i])
                            ELSE valid_smiles
         /\ files' = IF ok THEN files \cup {LigandPdb(i)} ELSE files
         /\ written' = IF ok THEN written \cup {LigandPdb(i)} ELSE written
    /\ i' = IF i = N THEN 1 ELSE i + 1
    /\ pc' = IF i = N THEN "fetch" ELSE "prep"
    /\ UNCHANGED <<smiles_list, earlier, results_disk, results_buf, log,
                   exit_code, calls, fatal, loaded>>

\* download_pdb and the rename to <id>_dirty.pdb. A failed fetch leaves no
\* file to rename, so it raises here.
download_pdb ==
    /\ pc = "fetch"
    /\ \E ok \in BOOLEAN :
         /\ calls' = Append(calls, Call("fetch", 0, ok))
         /\ IF ok
            THEN /\ files' = files \cup {DirtyPdb}
                 /\ written' = written \cup {DirtyPdb}
                 /\ pc' = "hetatm"
                 /\ UNCHANGED <<fatal, results_disk, results_buf>>
            ELSE /\ Raise("fetch")
                 /\ UNCHANGED <<files, written>>
    /\ UNCHANGED <<smiles_list, earlier, i, valid_smiles, prep_ok, log,
                   exit_code, loaded>>

\* remove_hetatm: writes the cleaned receptor.
remove_hetatm ==
    /\ pc = "hetatm"
    /\ files' = files \cup {ReceptorPdb}
    /\ written' = written \cup {ReceptorPdb}
    /\ pc' = "prank_check"
    /\ UNCHANGED <<smiles_list, earlier, i, valid_smiles, prep_ok,
                   results_disk, results_buf, log, exit_code, calls, fatal,
                   loaded>>

\* os.path.isfile on the prank script: FileNotFoundError when it is missing.
CheckPrank ==
    /\ pc = "prank_check"
    /\ \E present \in BOOLEAN :
         /\ calls' = Append(calls, Call("prank_isfile", 0, present))
         /\ IF present
            THEN /\ pc' = "prank_run"
                 /\ UNCHANGED <<fatal, results_disk, results_buf>>
            ELSE Raise("prank_missing")
    /\ UNCHANGED <<smiles_list, earlier, i, valid_smiles, prep_ok, files,
                   written, log, exit_code, loaded>>

\* subprocess.run([prank, 'predict', ...], check=True)
RunPrank ==
    /\ pc = "prank_run"
    /\ \E ok \in BOOLEAN :
         /\ calls' = Append(calls, Call("prank", 0, ok))
         /\ IF ok
            THEN /\ pc' = "pocket"
                 /\ UNCHANGED <<fatal, results_disk, results_buf>>
            ELSE Raise("prank_exit")
    /\ UNCHANGED <<smiles_list, earlier, i, valid_smiles, prep_ok, files,
                   written, log, exit_code, loaded>>

\* pd.read_csv and the three float(...iloc[0]): raises when the table is
\* missing, has no row, or a centre is not a number.
ReadPocket ==
    /\ pc = "pocket"
    /\ \E ok \in BOOLEAN :
         IF ok
         THEN /\ pc' = "receptor_conv"
              /\ UNCHANGED <<fatal, results_disk, results_buf>>
         ELSE Raise("pocket_read")
    /\ UNCHANGED <<smiles_list, earlier, i, valid_smiles, prep_ok, files,
                   written, log, exit_code, calls, loaded>>

\* convert_pdb_to_pdbqt_receptor: subprocess.run(..., check=True)
convert_pdb_to_pdbqt_receptor ==
    /\ pc = "receptor_conv"
    /\ \E ok \in BOOLEAN :
         /\ calls' = Append(calls, Call("obabel_receptor", 0, ok))
         /\ IF ok
            THEN /\ files' = files \cup {ReceptorPdbqt}
                 /\ written' = written \cup {ReceptorPdbqt}
                 /\ pc' = "open"
                 /\ UNCHANGED <<fatal, results_disk, results_buf>>
            ELSE /\ Raise("receptor_conv")
                 /\ UNCHANGED <<files, written>>
    /\ UNCHANGED <<smiles_list, earlier, i, valid_smiles, prep_ok, log,
                   exit_code, loaded>>

\* with open(results_file, 'w') as f: f.write(header)
OpenResults ==
    /\ pc = "open"
    /\ results_disk' = OpenTruncate(results_disk)
    /\ results_buf' = FileWrite(<<>>, Header(1))
    /\ files' = files \cup {ResultsFile}
    /\ written' = written \cup {ResultsFile}
    /\ i' = 1
    /\ pc' = AfterLigand(0)
    /\ UNCHANGED <<smiles_list, earlier, valid_smiles, prep_ok, log,
                   exit_code, calls, fatal, loaded>>

\* Variant: a failed ligand conversion is skipped and the loop goes on.
ConvertSkipped ==
    /\ i' = i + 1
    /\ log' = <<>>
    /\ pc' = IF i >= Len(smiles_list) THEN "close" ELSE "convert"
    /\ UNCHANGED <<files, written, fatal, results_disk, results_buf>>

\* A non-zero exit of the ligand conversion: check=True raises
\* CalledProcessError, which nothing catches.
ConvertFailed ==
    /\ Raise("ligand_conv")
    /\ UNCHANGED <<i, files, written, log>>

\* convert_pdb_to_pdbqt_ligand on ligand_<i>.pdb. The converted file is
\* produced when the input exists; what obabel returns when the input is
\* missing depends on its version, so both exits are possible.
convert_pdb_to_pdbqt_ligand ==
    /\ pc = "convert"
    /\ i <= Len(DockingList)
    /\ \E ok \in BOOLEAN :
         /\ calls' = Append(calls, Call("obabel_ligand", i, ok))
         /\ IF ok
            THEN /\ files' = IF LigandPdb(i) \in files
                             THEN files \cup {LigandPdbqt(i)} ELSE files
                 /\ written' = IF LigandPdb(i) \in files
                               THEN written \cup {LigandPdbqt(i)} ELSE written
                 /\ pc' = "dock"
                 /\ UNCHANGED <<i, log, fatal, results_disk, results_buf>>
            ELSE ConvertFailed
    /\ UNCHANGED <<smiles_list, earlier, valid_smiles, prep_ok, exit_code,
                   loaded>>

\* run_command_with_output(vina_command, log_file): the engine's output is
\* copied to the log line by line and its exit status returned. Without a
\* usable ligand file the engine fails and writes no pose; a zero exit
\* writes ligand_<i>_out.pdbqt.
run_command_with_output ==
    /\ pc = "dock"
    /\ \E code \in {0, 1}, lines \in Logs, wrote \in BOOLEAN :
         /\ LigandPdbqt(i) \notin files => (code = 1 /\ ~wrote)
         /\ code = 0 => wrote
         /\ calls' = Append(calls, Call("vina", i, code = 0))
         /\ exit_code' = code
         /\ log' = lines
         /\ files' = files \cup {VinaLog(i)}
                       \cup (IF wrote THEN {LigandOut(i)} ELSE {})
         /\ written' = written \cup {VinaLog(i)}
                       \cup (IF wrote THEN {LigandOut(i)} ELSE {})
    /\ pc' = "record"
    /\ UNCHANGED <<smiles_list, earlier, i, valid_smiles, prep_ok,
                   results_disk, results_buf, fatal, loaded>>

\* The score from the exit code and the log, and f.write of the row. The
\* file object keeps the line in its buffer: nothing flushes it, and the
\* few short rows of a bounded run never fill the buffer.
RecordScore ==
    /\ pc = "record"
    /\ LET score == ScoreOf(exit_code, log) IN
       IF score = IndexError
       THEN Raise("score_parse")
       ELSE /\ results_buf' = FileWrite(results_buf,
                                        Row(DockingList[i], score, 1))
            /\ pc' = "pose"
            /\ UNCHANGED <<fatal, results_disk>>
    /\ UNCHANGED <<smiles_list, earlier, i, valid_smiles, prep_ok, files,
                   written, log, exit_code, calls, loaded>>

\* cmd.load(receptor_pdb); cmd.load(ligand_<i>_out.pdbqt); cmd.save(best):
\* PyMOL raises when the file to load does not exist. The loads do not
\* depend on the exit code. With the index the current log file changes to
\* the next ligand's, which this run has not written yet.
MergePose ==
    /\ pc = "pose"
    /\ IF ReceptorPdb \in files /\ LigandOut(i) \in files
       THEN /\ files' = files \cup {BestPdb(i)}
            /\ written' = written \cup {BestPdb(i)}
            /\ i' = i + 1
            /\ log' = <<>>
            /\ pc' = AfterLigand(i)
            /\ UNCHANGED <<fatal, results_disk, results_buf>>
       ELSE /\ Raise("pose_load")
            /\ UNCHANGED <<i, files, written, log>>
    /\ UNCHANGED <<smiles_list, earlier, valid_smiles, prep_ok, exit_code,
                   calls, loaded>>

\* The end of the with block on the normal path; perform_docking returns.
CloseResults ==
    /\ pc = "close"
    /\ results_disk' = CloseFile(results_disk, results_buf)
    /\ results_buf' = <<>>
    /\ pc' = "done"
    /\ UNCHANGED <<smiles_list, earlier, i, valid_smiles, prep_ok, files,
                   written, log, exit_code, calls, fatal, loaded>>

-----------------------------------------------------------------------------
(* visualize_results(smiles_list, receptor_name, 'docking_results') *)

Least(S) == CHOOSE x \in S : \A y \in S : x <= y

\* First pass, index k: the docked pose, then the cleaned receptor.
PoseLoads(k) == IF PosePdbqt(k) \in files
                THEN {PosePdbqt(k), ReceptorPdb} ELSE {PosePdbqt(k)}
PoseFails(k) == PosePdbqt(k) \notin files \/ ReceptorPdb \notin files

\* Second pass, index k: the best-pose file, then the unfiltered receptor.
AlignLoads(k) == IF BestPdb(k) \in files
                 THEN {BestPdb(k), DirtyPdb} ELSE {BestPdb(k)}
AlignFails(k) == BestPdb(k) \notin files \/ DirtyPdb \notin files

\* The whole call: the two passes over range(len(smiles_list)), each
\* stopped by the first load that raises.
visualize_results ==
    /\ pc = "done"
    /\ LET bad1 == {k \in 1..N : PoseFails(k)}
           bad2 == {k \in 1..N : AlignFails(k)}
           end1 == IF bad1 = {} THEN N ELSE Least(bad1)
           end2 == IF bad1 # {} THEN 0
                   ELSE IF bad2 = {} THEN N ELSE Least(bad2)
           img1 == IF bad1 = {} THEN N ELSE end1 - 1
           img2 == IF bad1 # {} THEN 0
                   ELSE IF bad2 = {} THEN N ELSE end2 - 1
       IN
       /\ loaded' = UNION {PoseLoads(k) : k \in 1..end1}
                      \cup UNION {AlignLoads(k) : k \in 1..end2}
       /\ files' = files \cup {PoseImage(k) : k \in 1..img1}
                         \cup {AlignImage(k) : k \in 1..img2}
       /\ pc' = IF bad1 = {} /\ bad2 = {} THEN "vis_done" ELSE "vis_failed"
    /\ UNCHANGED <<smiles_list, earlier, i, valid_smiles, prep_ok, written,
                   results_disk, results_buf, log, exit_code, calls, fatal>>

-----------------------------------------------------------------------------

Next ==
    \/ PrepareLigand
    \/ download_pdb
    \/ remove_hetatm
    \/ CheckPrank
    \/ RunPrank
    \/ ReadPocket
    \/ convert_pdb_to_pdbqt_receptor
    \/ OpenResults
    \/ convert_pdb_to_pdbqt_ligand
    \/ run_command_with_output
    \/ RecordScore
    \/ MergePose
    \/ CloseResults
    \/ visualize_results

Spec == Init /\ [][Next]_vars

-----------------------------------------------------------------------------
(* Vocabulary of the properties *)

\* The table as the file object holds it: what is on disk, then the buffer.
Table == results_disk \o results_buf

DataRows(t) == IF t = <<>> THEN <<>> ELSE Tail(t)

SmilesOf(rows) == [k \in 1..Len(rows) |-> rows[k].smiles]

IsPrefix(p, l) == Len(p) <= Len(l) /\ p = SubSeq(l, 1, Len(p))

Returned == pc \in {"done", "vis_done", "vis_failed"}
Ended == Returned \/ pc = "aborted"
Opened == ResultsFile \in written

\* The table holds this run's header and the rows of ligands 1..n.
HoldsRows(t, n) ==
    /\ Len(t) = n + 1
    /\ n <= N
    /\ t[1] = Header(1)
    /\ \A k \in 1..n : t[k + 1].smiles = smiles_list[k] /\ t[k + 1].run = 1

CallSet == {calls[k] : k \in 1..Len(calls)}
Converted(k) == \E c \in CallSet : c.tool = "obabel_ligand" /\ c.k = k
Docked(k) == \E c \in CallSet : c.tool = "vina" /\ c.k = k
VinaFailed(k) == Call("vina", k, FALSE) \in CallSet
RowWritten(k) ==
    /\ Opened
    /\ Len(Table) >= k + 1
    /\ Table[k + 1].smiles = smiles_list[k]
    /\ Table[k + 1].run = 1

Digits == {"0", "1", "2", "3", "4", "5", "6", "7", "8", "9"}

\* A numeric string: an optional sign, digits with at most one point.
IsNumeric(tok) ==
    LET body == IF tok # <<>> /\ Head(tok) \in {"-", "+"} THEN Tail(tok)
                ELSE tok
    IN /\ \E k \in 1..Len(body) : body[k] \in Digits
       /\ \A k \in 1..Len(body) : body[k] \in Digits \cup {"."}
       /\ Cardinality({k \in 1..Len(body) : body[k] = "."}) <= 1

\* The score the specification describes: the second field of the first line
\* whose leading token is "1", "N/A" when there is no such line (and no
\* score at all, written <<>>, when that line has no second field).
RECURSIVE RankOneScore(_)
RankOneScore(lines) ==
    IF lines = <<>> THEN NA
    ELSE LET f == split(Head(lines)) IN
         IF f # <<>> /\ f[1] = <<"1">>
         THEN IF Len(f) >= 2 THEN f[2] ELSE <<>>
         ELSE RankOneScore(Tail(lines))

FatalTools == {"fetch", "prank_isfile", "prank", "obabel_receptor",
               "obabel_ligand"}
FatalFailure == \E c \in CallSet : ~c.ok /\ c.tool \in FatalTools

-----------------------------------------------------------------------------
(* C1 *)

\* C1 (as stated): at every point of a run the data rows of
\* docking_results.txt are the SMILES of a prefix of smiles_list, in order;
\* when perform_docking has returned the table is the header and exactly one
\* row per element of smiles_list, the k-th row carrying the k-th SMILES.
C1_RowsArePrefixAtEveryPoint ==
    /\ IsPrefix(SmilesOf(DataRows(results_disk)), smiles_list)
    /\ IsPrefix(SmilesOf(DataRows(Table)), smiles_list)
    /\ Returned => HoldsRows(results_disk, N)

\* C1 (amended): from the moment this run has opened docking_results.txt,
\* the data rows of the table (on disk, and as written so far) are the
\* SMILES of a prefix of smiles_list in input order, one row per ligand
\* processed; when perform_docking has returned, the table on disk is the
\* header followed by exactly one row per element of smiles_list.
C1_RowsArePrefixOnceOpened ==
    /\ Opened =>
         /\ IsPrefix(SmilesOf(DataRows(results_disk)), smiles_list)
         /\ \E n \in 0..N : HoldsRows(Table, n)
    /\ Returned => HoldsRows(results_disk, N)

\* A run of at least two ligands has returned with its full table.
C1_Witness ==
    /\ pc = "done"
    /\ N >= 2
    /\ HoldsRows(results_disk, N)
    /\ \E k \in 1..N : ~prep_ok[k]

-----------------------------------------------------------------------------
(* C2 *)

\* C2: a non-zero exit of the docking engine for ligand k does not abort
\* the run: the row (smiles_k, "Error") is written, the run is not aborted
\* while on ligand k, and when k is not the last ligand, ligand k+1 is
\* attempted before the run ends.
C2_EngineFailureDoesNotAbort ==
    \A k \in 1..N :
        VinaFailed(k) =>
            /\ ~(pc = "aborted" /\ i = k)
            /\ (pc \notin {"record"} \/ i # k) =>
                   (RowWritten(k) /\ Table[k + 1].score = ERR)
            /\ (Ended /\ k < N) => Converted(k + 1)

-----------------------------------------------------------------------------
(* C3 *)

\* C3: the converter and the docking engine are invoked at most once per
\* candidate, in input order, and never for a candidate whose preparation
\* returned failure.
C3_OnlyPreparedLigandsAreDocked ==
    /\ \A c \in CallSet :
           c.tool \in {"obabel_ligand", "vina"} => prep_ok[c.k]
    /\ \A a, b \in 1..Len(calls) :
           (a < b /\ calls[a].tool = calls[b].tool
                  /\ calls[a].tool \in {"obabel_ligand", "vina"})
               => calls[a].k < calls[b].k

-----------------------------------------------------------------------------
(* C4 *)

\* Every call made so far succeeded, except possibly calls made on ligands
\* whose preparation failed; the pocket table was read, and the log of
\* every prepared ligand could be scanned.
ToolsOkOnPrepared ==
    /\ \A c \in CallSet : c.ok \/ (c.k >= 1 /\ ~prep_ok[c.k])
    /\ fatal # "pocket_read"
    /\ fatal = "score_parse" => ~prep_ok[i]

\* C4: when some ligands fail preparation and every tool call on the other
\* stages and on the prepared ligands succeeds, the run does not abort.
C4_PreparationFailureNeverAborts ==
    (/\ Ended
     /\ \E k \in 1..N : ~prep_ok[k]
     /\ ToolsOkOnPrepared)
        => pc # "aborted"

-----------------------------------------------------------------------------
(* C5 *)

\* C5: every row written to the table has a score that is a numeric string
\* or one of the sentinels "N/A" and "Error".
C5_ScoreIsNumericOrSentinel ==
    \A k \in 1..Len(DataRows(Table)) :
        LET sc == DataRows(Table)[k].score IN
        sc \in {NA, ERR} \/ IsNumeric(sc)

-----------------------------------------------------------------------------
(* C6 *)

NoEarlierRow(t) == \A k \in 1..Len(t) : t[k].run # 0

\* C6 (as stated): after a run on a populated directory has ended, normally
\* or by a fatal abort at any stage, the table holds no row of the earlier
\* run.
C6_NoEarlierRowAfterAnyEnd ==
    Ended => NoEarlierRow(results_disk)

\* C6 (amended): after the run has ended normally, or by an abort that
\* happened once the table had been opened, the table holds no line of the
\* earlier run; an abort before the table is opened leaves the earlier
\* table as it was.
C6_NoEarlierRowOnceOpened ==
    /\ Opened => NoEarlierRow(Table)
    /\ (Ended /\ Opened) => (NoEarlierRow(results_disk) /\ results_buf = <<>>)
    /\ (Ended /\ ~Opened /\ earlier.ran) =>
           results_disk = EarlierTable(earlier.list)

\* A second run on a directory whose table had a data row has been aborted
\* after writing a row of its own.
C6_Witness ==
    /\ earlier.ran
    /\ Len(earlier.list) >= 1
    /\ pc = "aborted"
    /\ Opened
    /\ Len(results_disk) >= 2

-----------------------------------------------------------------------------
(* C7 *)

\* C7: a failed fetch, a missing pocket predictor, a non-zero exit of the
\* pocket predictor or of the converter (receptor or any ligand) ends the
\* run at that point: the run is aborted, and from then on no external tool
\* is invoked and no line is added to the result table.
C7_FatalFailureAborts ==
    [][/\ FatalFailure' => pc' = "aborted"
       /\ FatalFailure => UNCHANGED <<calls, results_disk, results_buf>>]_vars

\* The conversion of the second ligand failed after the first ligand's row
\* was written, and the run is aborted.
C7_Witness ==
    /\ pc = "aborted"
    /\ fatal = "ligand_conv"
    /\ i >= 2
    /\ ~calls[Len(calls)].ok
    /\ HoldsRows(results_disk, i - 1)

-----------------------------------------------------------------------------
(* C8 *)

-----------------------------------------------------------------------------
(* C9 *)

\* C9: after a zero exit the recorded score is the second field of the
\* first log line whose leading token is "1", and "N/A" exactly when the
\* log has no such line; the scan never ends the run.
C9_ScoreIsRankOneField ==
    /\ fatal # "score_parse"
    /\ (pc = "pose" /\ exit_code = 0) =>
           Table[Len(Table)].score = RankOneScore(log)

-----------------------------------------------------------------------------
(* C10 *)

\* C10: after perform_docking has returned in a fresh directory, every file
\* visualize_results loads is a file perform_docking wrote under that path.
C10_VisualizerLoadsOnlyWrittenFiles ==
    (pc \in {"vis_done", "vis_failed"} /\ ~earlier.ran) => loaded \subseteq written

====
